---- MODULE Spec2Model ----
\* A model of the go-ldap-client Client (package ldapClient): connect, Bind with
\* its bounded reconnect-and-retry, Close, Authenticate and New, run against a
\* directory server whose answers are drawn nondeterministically.
EXTENDS Integers, Sequences, FiniteSets, TLC

VARIABLES Conn, Config, disconnects, conns, call, procs

vars == <<Conn, Config, disconnects, conns, call, procs>>

\* ---------------------------------------------------------------- bounds
\* Total number of connections ever opened (dialed or handed to a literal).
MaxConns == 3
\* Cap on the retry counter, which the code itself never caps.
MaxDisconnects == 3

\* ------------------------------------------------------- program constants
NoError == "nil"
ClosedSignature == "LDAP Result Code 200 \"Network Error\": ldap: connection closed"
ConfigError == "BindDN or BindPassword was not set on Client config"
CACertError == "Could not append CA certs from PEM"
NoUserError == "User does not exist"
TooManyError == "Too many entries returned"
\* errors produced by the ldap library / the server, as the tests name them
BindFailed == "ldap bind failed"
SearchFailed == "failed ldap search"
DialError == "LDAP Result Code 200 \"Network Error\": dial tcp: connection refused"
\* a nil-pointer / nil-interface dereference: the call does not return
Panic == "panic: runtime error: invalid memory address or nil pointer dereference"

\* ------------------------------------------------------------ input sets
Usernames == {"alice"}
Passwords == {"hunter2", "wrong"}

\* *Config values: the nil pointer and the configurations a caller may supply.
NilConfig ==
    [isNil |-> TRUE, BindDN |-> "", BindPassword |-> "", Attributes |-> <<>>,
     UserFilter |-> "", UseSSL |-> FALSE, CACertificates |-> "none"]

Configs ==
    { [isNil |-> FALSE, BindDN |-> dn, BindPassword |-> pw,
       Attributes |-> <<"mail", "sn">>, UserFilter |-> "(uid=%s)",
       UseSSL |-> t[1], CACertificates |-> t[2]] :
         dn \in {"", "svc"}, pw \in {"", "svcpw"},
         t \in {<<FALSE, "none">>, <<TRUE, "invalid">>} }

\* directory entries a search may return
Alice ==
    [DN |-> "uid=alice",
     attrs |-> [a \in {"mail"} |-> <<"alice@example.com", "al@example.com">>]]
Bob ==
    [DN |-> "uid=bob",
     attrs |-> [a \in {"mail", "sn", "cn"} |->
                  IF a = "mail" THEN <<>> ELSE <<"Builder">>]]

\* A server answer to one network operation: an error (or none) and, for a
\* search, the entries of the result.
Resp(err, entries) == [err |-> err, entries |-> entries]

BindResponses == {Resp(NoError, <<>>), Resp(ClosedSignature, <<>>), Resp(BindFailed, <<>>)}
DialResponses == {Resp(NoError, <<>>), Resp(DialError, <<>>)}
SearchResponses ==
    {Resp(SearchFailed, <<>>), Resp(ClosedSignature, <<>>),
     Resp(NoError, <<>>), Resp(NoError, <<Alice>>),
     Resp(NoError, <<Bob>>), Resp(NoError, <<Alice, Bob>>)}
DeadResponses == {Resp(ClosedSignature, <<>>)}

\* ---------------------------------------------------------------- helpers
\* The client object as a value.
Client(cn, cfg, d) == [Conn |-> cn, Config |-> cfg, disconnects |-> d]
ZeroClient == Client(0, NilConfig, 0)

\* One network operation as it was issued: ident is the identity the
\* connection was bound as when the operation was sent.
Op(kind, cn, dn, pw, resp, ident) ==
    [op |-> kind, conn |-> cn, dn |-> dn, pw |-> pw, filter |-> <<>>,
     attrs |-> <<>>, resp |-> resp, ident |-> ident]
NoResp == Resp("", <<>>)

NilUser == [present |-> FALSE, map |-> [a \in {} |-> ""]]

\* Result of running (part of) a handler: the client and the connections
\* after it, the unread server answers, the returned values, the network
\* operations issued, and need: the answers the next operation could get when
\* the script o ran out (empty when the handler ran to its end).
Result(c, w, o, err, trace, need) ==
    [c |-> c, w |-> w, o |-> o, err |-> err, trace |-> trace, need |-> need,
     authenticated |-> FALSE, user |-> NilUser, guardErr |-> "", restoreErr |-> "",
     restores |-> 0, bodyLen |-> 0, bodyDisconnects |-> 0]

Range(s) == {s[i] : i \in DOMAIN s}

\* ------------------------------------------------- the directory server
\* ldap.Client.Close on connection cn.
ConnClose(w, cn) == [w EXCEPT ![cn].open = FALSE]

\* A new connection: open, alive and bound as nobody.
NewConn == [open |-> TRUE, alive |-> TRUE, ident |-> ""]

\* The answers a bind or a search on connection cn can get: a connection the
\* peer has closed answers every operation with the connection-closed error.
BindNeed(w, cn) == IF w[cn].alive THEN BindResponses ELSE DeadResponses
SearchNeed(w, cn) == IF w[cn].alive THEN SearchResponses ELSE DeadResponses

\* ldap.Client.Bind(dn, pw) on connection cn, answered by r: a successful
\* bind makes dn the identity of the connection, a failed one leaves it
\* anonymous, and the connection-closed error means the peer is gone.
ConnBind(w, cn, dn, r) ==
    IF r.err = NoError THEN [w EXCEPT ![cn].ident = dn]
    ELSE IF r.err = ClosedSignature
         THEN [w EXCEPT ![cn].ident = "", ![cn].alive = FALSE]
         ELSE [w EXCEPT ![cn].ident = ""]

\* x509.CertPool.AppendCertsFromPEM on the configured CA bytes.
AppendCertsFromPEM(ca) == ca = "valid"

\* fmt.Sprintf(UserFilter, username): the template with its slot filled.
Sprintf(template, arg) == <<template, arg>>

\* ldap.Entry.GetAttributeValue: the first value of the attribute, or "".
GetAttributeValue(entry, attr) ==
    IF attr \in DOMAIN entry.attrs /\ Len(entry.attrs[attr]) > 0
    THEN entry.attrs[attr][1] ELSE ""

\* ------------------------------------------------------------ the client
\* Close closing the connection without setting c.Conn to nil.
CloseKeepsConn(c, w) ==
    IF c.Conn # 0
    THEN Result(c, ConnClose(w, c.Conn), <<>>, NoError,
                <<Op("close", c.Conn, "", "", NoResp, w[c.Conn].ident)>>, {})
    ELSE Result(c, w, <<>>, NoError, <<>>, {})

\* Client.Close
Close(c, w) ==
    IF c.Conn # 0
    THEN Result([c EXCEPT !.Conn = 0], ConnClose(w, c.Conn), <<>>, NoError,
                <<Op("close", c.Conn, "", "", NoResp, w[c.Conn].ident)>>, {})
    ELSE Result(c, w, <<>>, NoError, <<>>, {})

\* Result r with the operations tr issued before it.
After(tr, r) == [r EXCEPT !.trace = tr \o r.trace]

\* connect, lines 59-85: the dial, once Close has run (cl).
connectDial(cl, cfg, n, o) ==
    IF cfg.isNil THEN Result(cl.c, cl.w, o, Panic, cl.trace, {})
    ELSE IF cfg.UseSSL /\ cfg.CACertificates # "none"
            /\ ~AppendCertsFromPEM(cfg.CACertificates)
    THEN Result(cl.c, cl.w, o, CACertError, cl.trace, {})
    ELSE IF o = <<>> THEN Result(cl.c, cl.w, o, "", cl.trace, DialResponses)
    ELSE IF Head(o).err # NoError
    THEN Result(cl.c, cl.w, Tail(o), Head(o).err,
                Append(cl.trace, Op("dial", n, "", "", Head(o), "")), {})
    ELSE Result([cl.c EXCEPT !.Conn = n], Append(cl.w, NewConn), Tail(o), NoError,
                Append(cl.trace, Op("dial", n, "", "", Head(o), "")), {})

\* connect dialing without closing the connection it holds.
connectNoClose(c, w, o) ==
    connectDial(Result(c, w, <<>>, NoError, <<>>, {}), c.Config, Len(w) + 1, o)

\* Client.connect
connect(c, w, o) == connectDial(Close(c, w), c.Config, Len(w) + 1, o)

\* The credential check passing when either credential is configured.
CredentialsSetEither(cfg) == cfg.BindDN # "" \/ cfg.BindPassword # ""

\* Bind, line 90: both service credentials are configured.
CredentialsSet(cfg) == cfg.BindDN # "" /\ cfg.BindPassword # ""

\* Every bind error taken for the connection-closed signature.
IsConnectionClosedAnyError(err) == err # NoError

\* Bind, line 92: the error is the connection-closed signature.
IsConnectionClosed(err) == err = ClosedSignature

\* A reconnect and retry allowed up to a counter of two.
MayRetryTwice(d) == d < 3

\* Bind, line 94: the counter still allows a reconnect and retry.
MayRetry(d) == d < 2

\* The counter left as it is by a successful bind.
AfterSuccessKept(d) == d

\* Bind, line 103: the counter after a successful bind.
AfterSuccess(d) == 0

RECURSIVE Bind(_, _, _)

\* The bind re-issued whether or not the reconnect succeeded.
BindRetryAfterFailedConnect(k) ==
    IF k.need # {} THEN k
    ELSE After(k.trace, Bind(k.c, k.w, k.o))

\* Bind, lines 95-98: after the reconnect k, its error or the retried Bind.
BindRetry(k) ==
    IF k.need # {} \/ k.err # NoError THEN k
    ELSE After(k.trace, Bind(k.c, k.w, k.o))

\* Bind, lines 91-104: the bind was sent (operation bind) and answered r.
BindAnswered(c, w, o, r, bind) ==
    IF r.err # NoError THEN
        IF IsConnectionClosed(r.err) THEN
            IF MayRetry(c.disconnects + 1)
            THEN After(<<bind>>,
                       BindRetry(connect([c EXCEPT !.disconnects = c.disconnects + 1],
                                         w, o)))
            ELSE Result([c EXCEPT !.disconnects = c.disconnects + 1], w, o,
                        r.err, <<bind>>, {})
        ELSE Result(c, w, o, r.err, <<bind>>, {})
    ELSE Result([c EXCEPT !.disconnects = AfterSuccess(c.disconnects)], w, o,
                NoError, <<bind>>, {})

\* Client.Bind
Bind(c, w, o) ==
    IF c.Config.isNil THEN Result(c, w, o, Panic, <<>>, {})
    ELSE IF CredentialsSet(c.Config) THEN
        IF c.Conn = 0 THEN Result(c, w, o, Panic, <<>>, {})
        ELSE IF o = <<>> THEN Result(c, w, o, "", <<>>, BindNeed(w, c.Conn))
        ELSE BindAnswered(c, ConnBind(w, c.Conn, c.Config.BindDN, Head(o)),
                          Tail(o), Head(o),
                          Op("bind", c.Conn, c.Config.BindDN, c.Config.BindPassword,
                             Head(o), w[c.Conn].ident))
    ELSE Result(c, w, o, ConfigError, <<>>, {})

\* The result-count policy letting two entries through.
CountErrorLax(entries) ==
    IF Len(entries) < 1 THEN NoUserError
    ELSE IF Len(entries) > 2 THEN TooManyError
    ELSE NoError

\* Authenticate, lines 138-144: the result-count policy, as the error it
\* returns (none when exactly one entry matched).
CountError(entries) ==
    IF Len(entries) < 1 THEN NoUserError
    ELSE IF Len(entries) > 1 THEN TooManyError
    ELSE NoError

\* A failed search taken for an empty result.
SearchErrorSwallowed(sr) ==
    IF sr.err # NoError THEN NoUserError ELSE CountError(sr.entries)

\* Authenticate, lines 134-144: the error returned after the search.
SearchError(sr) == IF sr.err # NoError THEN sr.err ELSE CountError(sr.entries)

\* The attribute mapping built from the requested attributes, "dn" included.
UserMapWithDN(attributes, entry) ==
    [present |-> TRUE,
     map |-> [attr \in Range(attributes) \cup {"dn"} |->
                GetAttributeValue(entry, attr)]]

\* Authenticate, lines 147-150: the attribute mapping of the matched entry.
UserMap(attributes, entry) ==
    [present |-> TRUE,
     map |-> [attr \in Range(attributes) |-> GetAttributeValue(entry, attr)]]

\* The validation bind sent with the service password.
ValidationCredentialsService(cfg, userDN, password) ==
    [dn |-> userDN, pw |-> cfg.BindPassword]

\* Authenticate, line 153: the credentials of the validation bind.
ValidationCredentials(cfg, userDN, password) == [dn |-> userDN, pw |-> password]

\* The attribute mapping dropped when the validation bind fails.
ValidationReturnNoUser(user, err) ==
    IF err # NoError
    THEN [authenticated |-> FALSE, user |-> NilUser, err |-> err]
    ELSE [authenticated |-> TRUE, user |-> user, err |-> NoError]

\* Authenticate, lines 153-156: what is returned after the validation bind.
ValidationReturn(user, err) ==
    IF err # NoError
    THEN [authenticated |-> FALSE, user |-> user, err |-> err]
    ELSE [authenticated |-> TRUE, user |-> user, err |-> NoError]

\* ldap.Client.Search on connection cn, answered by sr: the connection-closed
\* error means the peer is gone.
ConnSearch(w, cn, sr) ==
    IF sr.err = ClosedSignature THEN [w EXCEPT ![cn].alive = FALSE] ELSE w

\* The validation bind counting a connection-closed answer as Bind does.
ValidateCounting(s, cn, user, cred, r) ==
    [s EXCEPT !.c = [s.c EXCEPT !.disconnects =
                        IF r.err = ClosedSignature THEN @ + 1 ELSE @],
              !.w = ConnBind(s.w, cn, cred.dn, r), !.o = Tail(s.o),
              !.trace = Append(s.trace, Op("bind", cn, cred.dn, cred.pw, r,
                                           s.w[cn].ident)),
              !.user = ValidationReturn(user, r.err).user,
              !.authenticated = ValidationReturn(user, r.err).authenticated,
              !.err = ValidationReturn(user, r.err).err]

\* Authenticate, lines 152-156: the validation bind, answered r, after the
\* search s.
Validate(s, cn, user, cred, r) ==
    [s EXCEPT !.w = ConnBind(s.w, cn, cred.dn, r), !.o = Tail(s.o),
              !.trace = Append(s.trace, Op("bind", cn, cred.dn, cred.pw, r,
                                           s.w[cn].ident)),
              !.user = ValidationReturn(user, r.err).user,
              !.authenticated = ValidationReturn(user, r.err).authenticated,
              !.err = ValidationReturn(user, r.err).err]

\* Authenticate, lines 134-156: after the search s answered sr.
AfterSearch(s, sr, password) ==
    IF s.err # NoError THEN s
    ELSE IF s.o = <<>> THEN [s EXCEPT !.err = "", !.need = BindNeed(s.w, s.c.Conn)]
    ELSE Validate(s, s.c.Conn, UserMap(s.c.Config.Attributes, sr.entries[1]),
                  ValidationCredentials(s.c.Config, sr.entries[1].DN, password),
                  Head(s.o))

\* The search sent whether or not the guard Bind succeeded.
AfterGuardUnchecked(g, username, password) ==
    IF g.need # {} THEN g
    ELSE IF g.c.Conn = 0 THEN [g EXCEPT !.err = Panic, !.guardErr = g.err]
    ELSE IF g.o = <<>>
    THEN Result(g.c, g.w, g.o, "", g.trace, SearchNeed(g.w, g.c.Conn))
    ELSE AfterSearch(
            [g EXCEPT !.w = ConnSearch(g.w, g.c.Conn, Head(g.o)),
                      !.o = Tail(g.o),
                      !.err = SearchError(Head(g.o)),
                      !.guardErr = g.err,
                      !.trace = Append(g.trace,
                          [Op("search", g.c.Conn, "", "", Head(g.o),
                              g.w[g.c.Conn].ident)
                             EXCEPT !.filter = Sprintf(g.c.Config.UserFilter, username),
                                    !.attrs = Append(g.c.Config.Attributes, "dn")])],
            Head(g.o), password)

\* Authenticate, lines 120-133: after the guard Bind g, the search.
AfterGuard(g, username, password) ==
    IF g.need # {} THEN g
    ELSE IF g.err # NoError THEN [g EXCEPT !.guardErr = g.err]
    ELSE IF g.c.Conn = 0 THEN [g EXCEPT !.err = Panic, !.guardErr = g.err]
    ELSE IF g.o = <<>>
    THEN Result(g.c, g.w, g.o, "", g.trace, SearchNeed(g.w, g.c.Conn))
    ELSE AfterSearch(
            [g EXCEPT !.w = ConnSearch(g.w, g.c.Conn, Head(g.o)),
                      !.o = Tail(g.o),
                      !.err = SearchError(Head(g.o)),
                      !.guardErr = g.err,
                      !.trace = Append(g.trace,
                          [Op("search", g.c.Conn, "", "", Head(g.o),
                              g.w[g.c.Conn].ident)
                             EXCEPT !.filter = Sprintf(g.c.Config.UserFilter, username),
                                    !.attrs = Append(g.c.Config.Attributes, "dn")])],
            Head(g.o), password)

\* Client.Authenticate, lines 120-156: everything but the deferred Bind.
AuthenticateBody(c, w, username, password, o) ==
    AfterGuard(Bind(c, w, o), username, password)

\* Authenticate, line 119: the result of the body once the deferred Bind d
\* has run; the result of d is dropped unless it panics.
Deferred(body, d) ==
    IF d.need # {} THEN d
    ELSE [body EXCEPT !.c = d.c, !.w = d.w, !.o = d.o,
                      !.trace = body.trace \o d.trace, !.restoreErr = d.err,
                      !.restores = body.restores + 1,
                      !.bodyLen = Len(body.trace),
                      !.bodyDisconnects = body.c.disconnects,
                      !.err = IF d.err = Panic THEN Panic ELSE body.err]

\* The restoring Bind run only when the body returned no error.
RunDeferredOnSuccess(body) ==
    IF body.need # {} \/ body.err # NoError THEN body
    ELSE Deferred(body, Bind(body.c, body.w, body.o))

\* the deferred Bind, run when the body has returned or panicked
RunDeferred(body) ==
    IF body.need # {} THEN body
    ELSE Deferred(body, Bind(body.c, body.w, body.o))

\* Authenticate without the Bind deferred at line 119.
AuthenticateNoDefer(c, w, username, password, o) ==
    AuthenticateBody(c, w, username, password, o)

\* Client.Authenticate
Authenticate(c, w, username, password, o) ==
    RunDeferred(AuthenticateBody(c, w, username, password, o))

\* New returning the client it built when the initial Bind fails.
NewBoundKeepsClient(b) == b

\* New, lines 47-50: after the initial Bind b.
NewBound(b) ==
    IF b.need # {} THEN b
    ELSE IF b.err # NoError THEN [b EXCEPT !.c = ZeroClient]
    ELSE b

\* New, lines 44-50: after connect k.
NewConnected(k) ==
    IF k.need # {} THEN k
    ELSE IF k.err # NoError THEN [k EXCEPT !.c = ZeroClient]
    ELSE NewBound(After(k.trace, Bind(k.c, k.w, k.o)))

\* New: the client it returns (the zero Client on failure) and the error.
New(config, w, o) == NewConnected(connect(Client(0, config, 0), w, o))

\* ------------------------------------------------------- server scripts
\* A call is run against a script: the sequence of answers the server gives
\* to the network operations of the call, in order.
Run(op, c, w, arg, o) ==
    CASE op = "Bind" -> Bind(c, w, o)
      [] op = "Authenticate" -> Authenticate(c, w, arg[1], arg[2], o)
      [] op = "New" -> New(arg[1], w, o)

\* Each script of S with the answers its next operation can get: none when
\* the script answers every operation of the call.
Needs(op, c, w, arg, S) == { <<o, Run(op, c, w, arg, o).need>> : o \in S }

\* The scripts of N that ran out, extended by each answer they can get.
Extend(N) == UNION { { Append(p[1], r) : r \in p[2] } : p \in N }

\* The scripts of N that answer every operation of the call.
Complete(N) == { p[1] : p \in {q \in N : q[2] = {}} }

\* The scripts that answer exactly the operations the call issues, found by
\* extending the scripts that ran out by each answer the server can give.
RECURSIVE Scripts(_, _, _, _, _, _)
Scripts(op, c, w, arg, done, N) ==
    IF N = {} THEN done
    ELSE Scripts(op, c, w, arg, done \cup Complete(N),
                 Needs(op, c, w, arg, Extend(N)))

ScriptsOf(op, c, w, arg) ==
    Scripts(op, c, w, arg, {}, Needs(op, c, w, arg, {<<>>}))

\* ------------------------------------------------------------- the calls
This == Client(Conn, Config, disconnects)

\* What is remembered of the last call: its inputs, the client it was made
\* on, what it returned and the network operations it issued.
Call(op, arg, pre, r) ==
    [op |-> op, arg |-> arg, pre |-> pre, err |-> r.err,
     authenticated |-> r.authenticated, user |-> r.user,
     guardErr |-> r.guardErr, restoreErr |-> r.restoreErr, trace |-> r.trace,
     restores |-> r.restores, bodyLen |-> r.bodyLen,
     bodyDisconnects |-> r.bodyDisconnects]

NoCall == Call("none", <<>>, ZeroClient, Result(ZeroClient, <<>>, <<>>, NoError, <<>>, {}))

Init ==
    /\ Conn = 0
    /\ Config = NilConfig
    /\ disconnects = 0
    /\ conns = <<>>
    /\ call = NoCall
    /\ procs = <<>>

\* The client a call is made on, and whether the call before it was an
\* Authenticate whose deferred Bind returned an error.
Before ==
    [Conn |-> Conn, Config |-> Config, disconnects |-> disconnects,
     unrestored |-> call.op = "Authenticate"
                      /\ call.restoreErr \notin {"", NoError, Panic}]

Finish(op, arg, r) ==
    /\ Len(r.w) <= MaxConns
    /\ r.c.disconnects <= MaxDisconnects
    /\ Conn' = r.c.Conn
    /\ Config' = r.c.Config
    /\ disconnects' = r.c.disconnects
    /\ conns' = r.w
    /\ call' = Call(op, arg, Before, r)
    /\ procs' = procs

\* client, err := New(config), made while no client is held yet
NewCall ==
    /\ Config.isNil /\ Conn = 0
    /\ \E config \in Configs :
         \E o \in ScriptsOf("New", This, conns, <<config>>) :
            Finish("New", <<config>>, New(config, conns, o))

\* client := &Client{Conn: conn, Config: config}, as the tests build it
LiteralCall ==
    /\ Config.isNil /\ Conn = 0
    /\ \E config \in Configs :
         Finish("Literal", <<config>>,
                Result(Client(Len(conns) + 1, config, 0), Append(conns, NewConn),
                       <<>>, NoError, <<>>, {}))

BindCall ==
    \E o \in ScriptsOf("Bind", This, conns, <<>>) :
        Finish("Bind", <<>>, Bind(This, conns, o))

AuthenticateCall ==
    \E username \in Usernames, password \in Passwords :
        \E o \in ScriptsOf("Authenticate", This, conns, <<username, password>>) :
            Finish("Authenticate", <<username, password>>,
                   Authenticate(This, conns, username, password, o))

CloseCall ==
    \E r \in {Close(This, conns)} : Finish("Close", <<>>, r)

Next ==
    \/ NewCall
    \/ LiteralCall
    \/ BindCall
    \/ AuthenticateCall
    \/ CloseCall

Spec == Init /\ [][Next]_vars

TypeOK ==
    /\ Conn \in 0..Len(conns)
    /\ disconnects \in 0..MaxDisconnects
    /\ Len(conns) <= MaxConns

\* ------------------------------------------- concurrent Authenticate calls
\* Two goroutines call Authenticate on one shared, connected Client with no
\* lock around the calls. A network operation is two steps: the call reads
\* c.Conn and sends the operation on that connection, then waits; the answer
\* arrives in a later step, and the code after it runs then, on c.Conn and
\* c.disconnects as the other call has left them meanwhile. Every read and
\* every write of c.disconnects is a step of its own: the reset of line 103,
\* the load and the store of the increment of line 93 (an update of the other
\* call in between is lost) and the test of line 94. Close (lines 111-113) is
\* three steps: the test of c.Conn, the call of Close on it, and the
\* assignment of nil; the other call may assign c.Conn in between. A call that
\* panics on a nil c.Conn still runs its deferred Bind, as steps of its own,
\* before it ends with the panic; the other call goes on.
Procs == {1, 2}

\* the locals of a call: where it stands, whether the Bind it is in is the
\* deferred one, its arguments, the matched entry, what it is going to return,
\* the search or validation bind answered last and not followed by the answer
\* to another operation, the connection its pending
\* operation was sent on, the error the Bind it is in got from its bind
\* (line 91), and the counter value it loaded or stored at line 93
Proc(pc, username, password, userDN, user, authenticated, err, op) ==
    [pc |-> pc, deferred |-> FALSE, username |-> username, password |-> password,
     userDN |-> userDN, user |-> user, authenticated |-> authenticated,
     err |-> err, op |-> op, cn |-> 0, berr |-> "", d |-> 0]

NoOp == Op("none", 0, "", "", NoResp, "")
IdleProc == Proc("idle", "", "", "", NilUser, FALSE, "", NoOp)

\* a client returned by a successful New on a configuration with credentials
ConcInit ==
    /\ \E config \in {cfg \in Configs : CredentialsSet(cfg) /\ ~cfg.UseSSL} :
         \E r \in {New(config, <<>>, <<Resp(NoError, <<>>), Resp(NoError, <<>>)>>)} :
            /\ Conn = r.c.Conn
            /\ Config = r.c.Config
            /\ disconnects = r.c.disconnects
            /\ conns = r.w
    /\ call = NoCall
    /\ procs = [p \in Procs |-> IdleProc]

\* The answers an operation sent on connection cn can get: the library
\* answers for a connection the client has closed meanwhile.
PendingBindNeed(w, cn) == IF w[cn].open THEN BindNeed(w, cn) ELSE DeadResponses
PendingSearchNeed(w, cn) == IF w[cn].open THEN SearchNeed(w, cn) ELSE DeadResponses

\* Authenticate, line 119: the body is over with err and the deferred Bind
\* starts.
RunDeferredBind(pr, err) ==
    [pr EXCEPT !.pc = "bind", !.deferred = TRUE, !.err = err, !.cn = 0,
               !.berr = "", !.d = 0]

\* the locals of a call that panics on a nil c.Conn: in the body, the deferred
\* Bind runs next; in the deferred Bind, the call is over
Panicked(pr) ==
    IF pr.deferred
    THEN [pr EXCEPT !.pc = "returned", !.deferred = FALSE, !.authenticated = FALSE,
                    !.err = Panic, !.cn = 0, !.berr = "", !.d = 0]
    ELSE [RunDeferredBind(pr, Panic) EXCEPT !.authenticated = FALSE]

\* Authenticate, lines 120-122: the guard Bind returned err.
Guarded(pr, err) ==
    IF err # NoError THEN RunDeferredBind(pr, err)
    ELSE [pr EXCEPT !.pc = "search", !.err = err, !.cn = 0, !.berr = "", !.d = 0]

\* Authenticate, line 119: the deferred Bind returned; its error is dropped
\* and the call returns what the body set.
Restored(pr, err) ==
    [pr EXCEPT !.pc = "returned", !.deferred = FALSE, !.cn = 0, !.berr = "",
               !.d = 0]

\* the Bind the call is in returned err
BindReturned(pr, err) ==
    IF pr.deferred THEN Restored(pr, err) ELSE Guarded(pr, err)

\* The passwords the concurrent calls are made with: the server's answer to
\* the validation bind is drawn freely whatever the password is.
ConcPasswords == {"hunter2"}

\* Authenticate, line 118: the call is entered, its Bind deferred, and the
\* guard Bind called. The counter has no bound in the code: calls are entered
\* while it is below MaxDisconnects, and a call that was entered runs all its
\* increments.
ConcCall(p) ==
    /\ procs[p].pc = "idle"
    /\ disconnects < MaxDisconnects
    /\ \E username \in Usernames, password \in ConcPasswords :
         procs' = [procs EXCEPT ![p] = [IdleProc EXCEPT !.pc = "bind",
                                                        !.username = username,
                                                        !.password = password]]
    /\ UNCHANGED <<Conn, Config, disconnects, conns, call>>

\* Bind, lines 90-91 and 106: the credentials are checked, c.Conn is read and
\* the bind is sent on it; a nil c.Conn panics.
ConcBind(p) ==
    /\ procs[p].pc = "bind"
    /\ procs' = [procs EXCEPT ![p] =
                    IF ~CredentialsSet(Config) THEN BindReturned(procs[p], ConfigError)
                    ELSE IF Conn = 0 THEN Panicked(procs[p])
                    ELSE [procs[p] EXCEPT !.pc = "bindwait", !.cn = Conn]]
    /\ UNCHANGED <<Conn, Config, disconnects, conns, call>>

\* the connections after the bind of dn sent on cn was answered r
PendingBind(w, cn, dn, r) == IF w[cn].open THEN ConnBind(w, cn, dn, r) ELSE w

\* Bind, lines 91-92 and 101: the locals after the bind was answered r: on
\* success the counter is to be reset, on the closed signature it is to be
\* incremented, and any other error is returned.
BindAnswer(pr, r) ==
    IF r.err = NoError
    THEN [pr EXCEPT !.pc = "bindreset", !.cn = 0, !.op = NoOp]
    ELSE IF IsConnectionClosed(r.err)
    THEN [pr EXCEPT !.pc = "bindload", !.berr = r.err, !.cn = 0, !.op = NoOp]
    ELSE BindReturned([pr EXCEPT !.op = NoOp], r.err)

\* Bind, lines 91-92 and 101: the answer to the bind arrives.
ConcBindAnswer(p) ==
    /\ procs[p].pc = "bindwait"
    /\ \E r \in PendingBindNeed(conns, procs[p].cn) :
         /\ conns' = PendingBind(conns, procs[p].cn, Config.BindDN, r)
         /\ procs' = [procs EXCEPT ![p] = BindAnswer(procs[p], r)]
    /\ UNCHANGED <<Conn, Config, disconnects, call>>

\* Bind, lines 103-104: the counter is reset, whatever the other call has
\* stored meanwhile, and Bind returns nil.
ConcBindReset(p) ==
    /\ procs[p].pc = "bindreset"
    /\ disconnects' = AfterSuccess(disconnects)
    /\ procs' = [procs EXCEPT ![p] = BindReturned(procs[p], NoError)]
    /\ UNCHANGED <<Conn, Config, conns, call>>

\* Bind, line 93: c.disconnects is loaded for the increment.
ConcBindLoad(p) ==
    /\ procs[p].pc = "bindload"
    /\ procs' = [procs EXCEPT ![p].pc = "bindincr", ![p].d = disconnects]
    /\ UNCHANGED <<Conn, Config, disconnects, conns, call>>

\* Bind, line 93: the loaded value plus one is stored; a store of the other
\* call since the load is lost.
ConcBindIncr(p) ==
    /\ procs[p].pc = "bindincr"
    /\ disconnects' = procs[p].d + 1
    /\ procs' = [procs EXCEPT ![p].pc = "bindtest", ![p].d = procs[p].d + 1]
    /\ UNCHANGED <<Conn, Config, conns, call>>

\* Bind, lines 94-95 and 101: the locals after the counter was tested as d:
\* Bind returns the closed error or enters connect.
BindCounted(pr, d) ==
    IF ~MayRetry(d) THEN BindReturned(pr, pr.berr)
    ELSE [pr EXCEPT !.pc = "bindconnect", !.d = 0]

\* Bind, line 94: the counter is tested, as the value this call stored or as
\* what c.disconnects holds by now (the build may read it again).
ConcBindTest(p) ==
    /\ procs[p].pc = "bindtest"
    /\ \E d \in {procs[p].d, disconnects} :
         procs' = [procs EXCEPT ![p] = BindCounted(procs[p], d)]
    /\ UNCHANGED <<Conn, Config, disconnects, conns, call>>

\* connect, lines 59-73, once Close is over: the locals when connect got to
\* k, its dial or the error of the CA certificates.
Connecting(pr, k) ==
    IF k.need # {} THEN [pr EXCEPT !.pc = "binddial", !.cn = 0, !.d = 0]
    ELSE BindReturned(pr, k.err)

\* connect up to its dial on a client that holds no connection
ConnectOutcome(c, w) == connectDial(Close(c, w), c.Config, Len(w) + 1, <<>>)

\* connect, line 58, and Close, line 111: connect calls Close, which tests
\* c.Conn and finds a connection to close or none.
ConcBindConnect(p) ==
    /\ procs[p].pc = "bindconnect"
    /\ procs' = [procs EXCEPT ![p] =
                    IF Conn # 0
                    THEN [procs[p] EXCEPT !.pc = "bindclose", !.cn = Conn]
                    ELSE Connecting(procs[p],
                                    ConnectOutcome(Client(0, Config, disconnects),
                                                   conns))]
    /\ UNCHANGED <<Conn, Config, disconnects, conns, call>>

\* Close, line 112: c.Conn.Close() on the connection line 111 found, or on
\* what c.Conn holds by now (the build may read it again); on nil it panics.
ConcBindClose(p) ==
    /\ procs[p].pc = "bindclose"
    /\ \E cn \in {procs[p].cn, Conn} :
         IF cn = 0
         THEN /\ procs' = [procs EXCEPT ![p] = Panicked(procs[p])]
              /\ UNCHANGED conns
         ELSE /\ procs' = [procs EXCEPT ![p].pc = "bindnil", ![p].cn = 0]
              /\ conns' = ConnClose(conns, cn)
    /\ UNCHANGED <<Conn, Config, disconnects, call>>

\* Close, line 113, and connect, lines 59-73: c.Conn is set to nil and
\* connect goes to its dial.
ConcBindNil(p) ==
    /\ procs[p].pc = "bindnil"
    /\ Conn' = 0
    /\ procs' = [procs EXCEPT ![p] =
                    Connecting(procs[p],
                               ConnectOutcome(Client(0, Config, disconnects), conns))]
    /\ UNCHANGED <<Config, disconnects, conns, call>>

\* connect, lines 74-85, from the dial on: the results it can have.
DialOutcomes(c, w) ==
    {connectDial(Result(c, w, <<>>, NoError, <<>>, {}), c.Config, Len(w) + 1, <<d>>) :
        d \in DialResponses}

\* Bind, lines 95-98: the locals after connect returned k: Bind returns the
\* dial error or calls itself again.
BindDialed(pr, k) ==
    IF k.err # NoError THEN BindReturned(pr, k.err)
    ELSE [pr EXCEPT !.pc = "bind"]

\* connect, lines 74-85, and Bind, lines 95-98: the dial is answered and
\* c.Conn assigned.
ConcDial(p) ==
    /\ procs[p].pc = "binddial"
    /\ \E k \in DialOutcomes(This, conns) :
         /\ Len(k.w) <= MaxConns
         /\ Conn' = k.c.Conn
         /\ conns' = k.w
         /\ procs' = [procs EXCEPT ![p] = BindDialed(procs[p], k)]
    /\ UNCHANGED <<Config, disconnects, call>>

\* Authenticate, lines 123-133: c.Conn is read and the search sent on it; a
\* nil c.Conn panics.
ConcSearch(p) ==
    /\ procs[p].pc = "search"
    /\ procs' = [procs EXCEPT ![p] =
                    IF Conn = 0 THEN Panicked(procs[p])
                    ELSE [procs[p] EXCEPT !.pc = "searchwait", !.cn = Conn]]
    /\ UNCHANGED <<Conn, Config, disconnects, conns, call>>

\* Authenticate, lines 123-133: the search request as it is sent.
SearchRequest(c, w, username, sr) ==
    [Op("search", c.Conn, "", "", sr, w[c.Conn].ident)
        EXCEPT !.filter = Sprintf(c.Config.UserFilter, username),
               !.attrs = Append(c.Config.Attributes, "dn")]

\* the locals after the search was answered sr
Searched(pr, c, sr, op) ==
    IF SearchError(sr) # NoError
    THEN RunDeferredBind([pr EXCEPT !.op = op], SearchError(sr))
    ELSE [pr EXCEPT !.pc = "validate", !.userDN = sr.entries[1].DN,
                    !.user = UserMap(c.Config.Attributes, sr.entries[1]),
                    !.op = op, !.cn = 0]

\* Authenticate, lines 133-150: the answer to the search arrives.
ConcSearchAnswer(p) ==
    /\ procs[p].pc = "searchwait"
    /\ \E sr \in PendingSearchNeed(conns, procs[p].cn) :
         /\ conns' = IF conns[procs[p].cn].open
                     THEN ConnSearch(conns, procs[p].cn, sr) ELSE conns
         /\ procs' = [procs EXCEPT ![p] =
                         Searched(procs[p], This, sr,
                                  SearchRequest([This EXCEPT !.Conn = procs[p].cn],
                                                conns, procs[p].username, sr))]
    /\ UNCHANGED <<Conn, Config, disconnects, call>>

\* Authenticate, lines 152-153: c.Conn is read and the validation bind sent
\* on it; a nil c.Conn panics.
ConcValidate(p) ==
    /\ procs[p].pc = "validate"
    /\ procs' = [procs EXCEPT ![p] =
                    IF Conn = 0 THEN Panicked(procs[p])
                    ELSE [procs[p] EXCEPT !.pc = "validatewait", !.cn = Conn]]
    /\ UNCHANGED <<Conn, Config, disconnects, conns, call>>

\* The call returning right after its validation bind, restoring nothing.
ValidatedNoRestore(pr, v) ==
    [pr EXCEPT !.pc = "returned", !.user = v.user,
               !.authenticated = v.authenticated, !.err = v.err,
               !.op = v.trace[1], !.cn = 0]

\* the locals after the validation bind: the values to return are set and
\* the deferred Bind is what remains to run
Validated(pr, v) ==
    [RunDeferredBind(pr, v.err) EXCEPT !.user = v.user,
                                       !.authenticated = v.authenticated,
                                       !.op = v.trace[1]]

\* the validation bind sent on connection cn of client c, answered r
ValidateOutcome(c, w, cn, pr, r) ==
    Validate(Result(c, w, <<r>>, NoError, <<>>, {}), cn, pr.user,
             ValidationCredentials(c.Config, pr.userDN, pr.password), r)

\* Authenticate, lines 153-156: the answer to the validation bind arrives.
ConcValidateAnswer(p) ==
    /\ procs[p].pc = "validatewait"
    /\ \E r \in PendingBindNeed(conns, procs[p].cn) :
         /\ conns' = PendingBind(conns, procs[p].cn, procs[p].userDN, r)
         /\ procs' = [procs EXCEPT ![p] =
                         Validated(procs[p],
                                   ValidateOutcome(This, conns, procs[p].cn,
                                                   procs[p], r))]
    /\ UNCHANGED <<Conn, Config, disconnects, call>>

\* the caller has its results; the goroutine is free for another call
ConcReturn(p) ==
    /\ procs[p].pc = "returned"
    /\ procs' = [procs EXCEPT ![p] = IdleProc]
    /\ UNCHANGED <<Conn, Config, disconnects, conns, call>>

ConcNext ==
    \E p \in Procs :
        \/ ConcCall(p)
        \/ ConcBind(p)
        \/ ConcBindAnswer(p)
        \/ ConcBindReset(p)
        \/ ConcBindLoad(p)
        \/ ConcBindIncr(p)
        \/ ConcBindTest(p)
        \/ ConcBindConnect(p)
        \/ ConcBindClose(p)
        \/ ConcBindNil(p)
        \/ ConcDial(p)
        \/ ConcSearch(p)
        \/ ConcSearchAnswer(p)
        \/ ConcValidate(p)
        \/ ConcValidateAnswer(p)
        \/ ConcReturn(p)

ConcSpec == ConcInit /\ [][ConcNext]_vars

\* ------------------------------------------------------------ properties
T == call.trace

\* the last call was an Authenticate and it returned (it did not panic)
Returned == call.op = "Authenticate" /\ call.err # Panic

\* the client's connection is bound as the service identity
ServiceBound ==
    /\ Conn # 0
    /\ Config.BindDN # ""
    /\ conns[Conn].ident = Config.BindDN

IsServiceBind(x) ==
    x.op = "bind" /\ x.dn = Config.BindDN /\ x.pw = Config.BindPassword
IsUserBind(x) == x.op = "bind" /\ ~IsServiceBind(x)

\* operation i of the last call is a search that succeeded with n entries
SearchOK(i, n) ==
    /\ i \in DOMAIN T
    /\ T[i].op = "search"
    /\ T[i].resp.err = NoError
    /\ Len(T[i].resp.entries) = n

\* the deferred Bind of the last Authenticate returned an error
RestoreFailed == call.restoreErr \notin {"", NoError}

\* C1 as stated: after any Authenticate call returns, whatever the server
\* answered, the connection is bound as the service identity.
C1_AlwaysServiceBound == Returned => ServiceBound

\* C1, amended: after any Authenticate call returns, the connection is bound
\* as the service identity unless the Bind deferred by the call failed.
C1_ServiceBoundUnlessRestoreFailed == Returned => (ServiceBound \/ RestoreFailed)

C1_Witness ==
    /\ Returned /\ call.authenticated /\ call.restoreErr = NoError
    /\ ServiceBound
    /\ \E i \in DOMAIN T : IsUserBind(T[i]) /\ T[i].resp.err = NoError

\* the last call searched, found exactly one entry right after a successful
\* service bind, and the bind as that entry's DN with the supplied password
\* succeeded
ValidatedOK ==
    \E i \in DOMAIN T :
        /\ SearchOK(i, 1)
        /\ i - 1 \in DOMAIN T
        /\ IsServiceBind(T[i - 1]) /\ T[i - 1].resp.err = NoError
        /\ i + 1 \in DOMAIN T
        /\ T[i + 1].op = "bind"
        /\ T[i + 1].dn = T[i].resp.entries[1].DN
        /\ T[i + 1].pw = call.arg[2]
        /\ T[i + 1].resp.err = NoError

\* C2: Authenticate returns authenticated = true if and only if the guard
\* bind succeeded, the search found exactly one entry and the bind as that
\* entry's DN with the supplied password succeeded; then the error is absent.
C2_AuthenticatedIffValidated ==
    Returned =>
        /\ call.authenticated <=> ValidatedOK
        /\ call.authenticated => call.err = NoError

C2_Witness ==
    /\ Returned /\ call.authenticated /\ call.err = NoError
    /\ call.arg[2] = "hunter2" /\ ValidatedOK

\* C3: the attribute mapping is returned exactly when the search resolved
\* exactly one entry; when the validation bind then fails the call returns
\* (false, the mapping, the bind's error).
C3_UserPresentIffOneMatch ==
    Returned =>
        /\ call.user.present <=> \E i \in DOMAIN T : SearchOK(i, 1)
        /\ \A i \in DOMAIN T :
              (SearchOK(i, 1) /\ T[i + 1].resp.err # NoError) =>
                  /\ ~call.authenticated
                  /\ call.user.present
                  /\ DOMAIN call.user.map = Range(Config.Attributes)
                  /\ call.err = T[i + 1].resp.err

C3_Witness ==
    /\ Returned /\ ~call.authenticated /\ call.user.present
    /\ call.err = BindFailed
    /\ call.user.map["mail"] = "alice@example.com"

\* C4: after a successful guard bind and search, zero entries return (false,
\* absent, "User does not exist"), two or more return (false, absent, "Too
\* many entries returned"), in both cases without a bind as a user; exactly
\* one entry proceeds to the validation bind.
C4_ResultCountPolicy ==
    call.op = "Authenticate" =>
        \A i \in DOMAIN T :
            /\ SearchOK(i, 0) =>
                  /\ call.err = NoUserError
                  /\ ~call.authenticated /\ ~call.user.present
                  /\ \A j \in DOMAIN T : ~IsUserBind(T[j])
            /\ (\E n \in 2..3 : SearchOK(i, n)) =>
                  /\ call.err = TooManyError
                  /\ ~call.authenticated /\ ~call.user.present
                  /\ \A j \in DOMAIN T : ~IsUserBind(T[j])
            /\ SearchOK(i, 1) =>
                  /\ i + 1 \in DOMAIN T
                  /\ IsUserBind(T[i + 1])
                  /\ T[i + 1].dn = T[i].resp.entries[1].DN

C4_Witness ==
    /\ call.op = "Authenticate" /\ call.err = TooManyError
    /\ \E i \in DOMAIN T : SearchOK(i, 2)
    /\ \A j \in DOMAIN T : ~IsUserBind(T[j])

\* C5: when the guard bind succeeds and the search fails, Authenticate
\* returns (false, absent, the search's error), issues no validation bind, and
\* the restoring service bind is still issued after the search.
C5_SearchFailure ==
    call.op = "Authenticate" =>
        \A i \in DOMAIN T :
            (T[i].op = "search" /\ T[i].resp.err # NoError) =>
                /\ call.err = T[i].resp.err
                /\ ~call.authenticated /\ ~call.user.present
                /\ \A j \in DOMAIN T : ~IsUserBind(T[j])
                /\ call.restoreErr # ""
                /\ i + 1 \in DOMAIN T /\ IsServiceBind(T[i + 1])

C5_Witness ==
    /\ call.op = "Authenticate" /\ call.err = SearchFailed
    /\ call.restoreErr = NoError
    /\ T[Len(T)].op = "bind" /\ T[Len(T) - 1].op = "search"

\* the guard Bind of the last Authenticate returned an error
GuardFailed == call.guardErr \notin {"", NoError, Panic}

\* C6: if the guard Bind of Authenticate fails, for whatever reason,
\* Authenticate returns (false, absent, that same error) and issues neither a
\* search nor a validation bind.
C6_GuardFailureReturned ==
    (call.op = "Authenticate" /\ GuardFailed) =>
        /\ call.err = call.guardErr
        /\ ~call.authenticated /\ ~call.user.present
        /\ \A i \in DOMAIN T : T[i].op # "search" /\ ~IsUserBind(T[i])

Count(kind, tr) == Cardinality({i \in DOMAIN tr : tr[i].op = kind})

\* the call whose operations are tr found the connection closed at its first
\* bind, called connect, and re-issued the bind once if connect succeeded
RetriedOnce(tr) ==
    /\ Len(tr) >= 2 /\ tr[2].op = "close"
    /\ Count("close", tr) = 1 /\ Count("dial", tr) <= 1
    /\ Count("bind", tr) =
          IF \E i \in DOMAIN tr : tr[i].op = "dial" /\ tr[i].resp.err = NoError
          THEN 2 ELSE 1

FirstBindClosed(tr) ==
    tr # <<>> /\ tr[1].op = "bind" /\ tr[1].resp.err = ClosedSignature

\* C7: every top-level Bind whose bind attempt fails with the
\* connection-closed signature, in any reachable client state, reconnects
\* and re-issues the service bind exactly once.
C7_RetryOnEveryClosedBind ==
    (call.op = "Bind" /\ FirstBindClosed(T)) => RetriedOnce(T)

\* the last service Bind (top-level, in New, or deferred by Authenticate)
\* returned success
BindSucceeded ==
    \/ call.op \in {"Bind", "New"} /\ call.err = NoError
    \/ call.op = "Authenticate" /\ call.restoreErr = NoError

\* C8: whenever a service Bind returns success the retry counter is 0, and a
\* top-level Bind that follows and fails with the connection-closed
\* signature gets its reconnect-and-retry.
C8_SuccessResetsCounter ==
    /\ [](BindSucceeded => disconnects = 0)
    /\ [][(BindSucceeded /\ call'.op = "Bind" /\ FirstBindClosed(call'.trace))
             => RetriedOnce(call'.trace)]_vars

C8_Witness ==
    /\ call.op = "Bind" /\ FirstBindClosed(T) /\ RetriedOnce(T)
    /\ call.err = NoError /\ disconnects = 0
    /\ call.pre.Conn = 2 /\ call.pre.disconnects = 0

\* C9: in every reachable state the retry counter is between 0 and 2.
C9_CounterAtMostTwo == disconnects \in 0..2

\* C10: with BindDN or BindPassword empty, Bind fails with the configuration
\* error, issues no network operation and leaves the connection and the
\* retry counter unchanged.
C10_MissingCredentials ==
    [][(call'.op = "Bind" /\ ~Config.isNil
          /\ (Config.BindDN = "" \/ Config.BindPassword = ""))
         => /\ call'.err = ConfigError
            /\ call'.trace = <<>>
            /\ UNCHANGED <<Conn, Config, disconnects, conns>>]_vars

C10_Witness ==
    /\ call.op = "Bind" /\ call.err = ConfigError /\ T = <<>>
    /\ Config.BindDN = "svc" /\ Config.BindPassword = ""
    /\ Conn # 0 /\ conns[Conn].open

\* C11: every Bind or Authenticate call completes by returning a result or
\* an error in every reachable client state, also when the client holds no
\* connection; none dereferences an absent connection.
C11_CallsReturn ==
    call.op \in {"Bind", "Authenticate"} => call.err # Panic

\* the open connections other than cn
OpenBeside(w, cn) == {i \in DOMAIN w : w[i].open /\ i # cn}

\* C12: the client owns at most one open connection: no call on a client
\* (nor a successful New) leaves a connection open besides the one the client
\* holds afterwards; the only such connections are those that were already
\* open and not held by the client before the call.
C12_AtMostOneOwnedConnection ==
    [][(\/ call'.op \in {"Bind", "Authenticate", "Close"}
        \/ call'.op = "New" /\ call'.err = NoError)
         => OpenBeside(conns', Conn') \subseteq OpenBeside(conns, Conn)]_vars

C12_Witness ==
    /\ call.op = "Bind" /\ call.err = NoError
    /\ call.pre.Conn = 1 /\ Conn = 2
    /\ ~conns[1].open /\ conns[2].open

\* C13: Close is a no-op when no connection is held, and otherwise closes the
\* connection and sets it absent; after Close no connection is held, and a
\* further Close changes nothing.
C13_CloseIdempotent ==
    [][call'.op = "Close" =>
          /\ Conn' = 0
          /\ UNCHANGED <<Config, disconnects>>
          /\ Conn = 0 => (conns' = conns /\ call'.trace = <<>>)
          /\ Conn # 0 =>
                /\ conns' = [conns EXCEPT ![Conn].open = FALSE]
                /\ Len(call'.trace) = 1
                /\ call'.trace[1].op = "close" /\ call'.trace[1].conn = Conn
          /\ Close(Client(Conn', Config', disconnects'), conns').c
                = Client(Conn', Config', disconnects')
          /\ Close(Client(Conn', Config', disconnects'), conns').w = conns']_vars

C13_Witness ==
    /\ call.op = "Close" /\ call.pre.Conn # 0 /\ Conn = 0
    /\ ~conns[call.pre.Conn].open
    /\ Len(T) = 1

\* C14: New returns the error of the step that failed (CA certificates, dial,
\* initial bind) together with the empty Client, holding neither a connection
\* nor a configuration; it returns the connected, service-bound client only
\* when connect and the initial Bind both succeeded.
C14_NewAllOrNothing ==
    call.op = "New" =>
        /\ call.err # Panic
        /\ call.err # NoError =>
              /\ Conn = 0 /\ Config = NilConfig /\ disconnects = 0
              /\ \/ /\ T = <<>>
                    /\ call.err = CACertError
                    /\ call.arg[1].UseSSL /\ call.arg[1].CACertificates = "invalid"
                 \/ /\ T # <<>>
                    /\ T[Len(T)].resp.err # NoError
                    /\ call.err = T[Len(T)].resp.err
                 \/ /\ T # <<>>
                    /\ T[Len(T)].op = "dial" /\ T[Len(T)].resp.err = NoError
                    /\ call.err = ConfigError
                    /\ call.arg[1].BindDN = "" \/ call.arg[1].BindPassword = ""
        /\ call.err = NoError =>
              /\ Config = call.arg[1]
              /\ Conn # 0 /\ conns[Conn].open
              /\ conns[Conn].ident = Config.BindDN /\ Config.BindDN # ""
              /\ disconnects = 0
              /\ T[Len(T)].op = "bind" /\ T[Len(T)].resp.err = NoError
              /\ \E i \in DOMAIN T : T[i].op = "dial" /\ T[i].resp.err = NoError
                                     /\ T[i].conn = Conn

C14_Witness ==
    /\ call.op = "New" /\ call.err = BindFailed
    /\ Conn = 0 /\ Config = NilConfig
    /\ T[1].op = "dial" /\ T[1].resp.err = NoError

\* the entry's first value for the attribute, "" when it has none
FirstValue(entry, attr) ==
    IF attr \in DOMAIN entry.attrs /\ entry.attrs[attr] # <<>>
    THEN entry.attrs[attr][1] ELSE ""

\* C16: whenever Authenticate returns an attribute mapping, its key set is
\* exactly the set of configured attribute names, without the "dn" added to
\* the search request; each name maps to the first value the matched entry
\* has for it, or to the empty string when the entry lacks it.
C16_MappingPerConfiguredAttribute ==
    (Returned /\ call.user.present) =>
        /\ DOMAIN call.user.map = Range(Config.Attributes)
        /\ "dn" \notin DOMAIN call.user.map
        /\ \E i \in DOMAIN T :
              /\ SearchOK(i, 1)
              /\ T[i].attrs = Append(Config.Attributes, "dn")
              /\ \A a \in Range(Config.Attributes) :
                    call.user.map[a] = FirstValue(T[i].resp.entries[1], a)

C16_Witness ==
    /\ Returned /\ call.user.present
    /\ \E i \in DOMAIN T : SearchOK(i, 1) /\ T[i].resp.entries[1].DN = "uid=bob"
    /\ call.user.map["mail"] = "" /\ call.user.map["sn"] = "Builder"
    /\ DOMAIN call.user.map = {"mail", "sn"}

\* the operations the last Authenticate issued after its outcome was
\* determined
RestoreOps == {i \in DOMAIN T : i > call.bodyLen}

\* C17: on every exit path of Authenticate exactly one further service Bind
\* is invoked after the outcome is determined and before the call returns:
\* everything the call does from then on belongs to that Bind (service binds
\* and its reconnect), it starts with a service bind whenever it reaches the
\* server, and no other bind follows it.
C17_RestoreExactlyOnce ==
    call.op = "Authenticate" =>
        /\ call.restores = 1
        /\ call.bodyLen <= Len(T)
        /\ \A i \in RestoreOps : T[i].op \in {"close", "dial"} \/ IsServiceBind(T[i])
        /\ Cardinality({i \in RestoreOps : T[i].op = "bind"}) <= 2
        /\ call.restoreErr \notin {ConfigError, Panic} =>
              /\ RestoreOps # {}
              /\ IsServiceBind(T[call.bodyLen + 1])
        /\ call.restoreErr \in {ConfigError, Panic} => RestoreOps = {}

C17_Witness ==
    /\ call.op = "Authenticate" /\ call.err = TooManyError
    /\ call.restores = 1 /\ call.restoreErr = NoError
    /\ call.bodyLen = 2 /\ Len(T) = 3
    /\ T[2].op = "search" /\ IsServiceBind(T[3])

\* the validation binds of the last call
UserBinds == {i \in DOMAIN T : IsUserBind(T[i])}

\* C18: the per-user validation bind of Authenticate is one-shot: it is
\* issued at most once and is the last thing the call does before returning;
\* when it fails with the connection-closed signature that error is the
\* call's error, and the retry counter stands after it where the guard's
\* successful bind left it, at zero.
C18_ValidationBindOneShot ==
    call.op = "Authenticate" =>
        /\ Cardinality(UserBinds) <= 1
        /\ \A i \in UserBinds :
              /\ i = call.bodyLen
              /\ call.bodyDisconnects = 0
              /\ T[i].resp.err = ClosedSignature =>
                    /\ call.err = ClosedSignature
                    /\ ~call.authenticated

C18_Witness ==
    /\ call.op = "Authenticate" /\ call.err = ClosedSignature
    /\ \E i \in UserBinds :
          /\ T[i].resp.err = ClosedSignature
          /\ i + 3 \in DOMAIN T
          /\ IsServiceBind(T[i + 1]) /\ T[i + 2].op = "close" /\ T[i + 3].op = "dial"
    /\ call.bodyDisconnects = 0

\* C19: every top-level Bind returns, for every sequence of server answers
\* and every starting value of the retry counter, after at most two bind
\* attempts and at most one reconnect.
C19_BindBounded ==
    call.op = "Bind" =>
        /\ Count("bind", T) <= 2
        /\ Count("dial", T) <= 1
        /\ Count("close", T) <= 1
        /\ Len(T) <= 4

C19_Witness ==
    /\ call.op = "Bind" /\ call.err = ClosedSignature
    /\ Count("bind", T) = 2 /\ Count("dial", T) = 1
    /\ call.pre.disconnects = 0 /\ disconnects = 2

\* C20: a service bind answered with an error other than the
\* connection-closed signature ends the Bind with that error: nothing is
\* sent after it, the connection it was sent on is still the held one, and
\* the retry counter is what it was when the bind was sent.
C20_OtherBindErrorSurfaced ==
    call.op = "Bind" =>
        \A i \in DOMAIN T :
            (T[i].op = "bind" /\ T[i].resp.err \notin {NoError, ClosedSignature}) =>
                /\ i = Len(T)
                /\ call.err = T[i].resp.err
                /\ Conn = T[i].conn
                /\ disconnects = call.pre.disconnects
                                   + Cardinality({j \in 1..(i - 1) : T[j].op = "bind"})
                /\ i = 1 => (Conn = call.pre.Conn /\ disconnects = call.pre.disconnects)

C20_Witness ==
    /\ call.op = "Bind" /\ call.err = BindFailed
    /\ Len(T) = 1 /\ T[1].op = "bind"
    /\ Conn = call.pre.Conn /\ disconnects = call.pre.disconnects
    /\ conns[Conn].open

\* the DNs of the directory's user entries
UserDNs == {Alice.DN, Bob.DN}

\* call p has bound a connection as its user and its deferred Bind has not
\* been answered yet
Validating(p) ==
    /\ procs[p].deferred /\ procs[p].pc \in {"bind", "bindwait"}
    /\ procs[p].berr = ""
    /\ procs[p].authenticated
    /\ IsUserBind(procs[p].op) /\ procs[p].op.resp.err = NoError

\* the held connection, while open, is bound as a user identity only while
\* some call stands between its successful validation bind on it and the
\* answer to the bind of its restoring Bind
UserBoundOnlyWhileValidating ==
    (Conn # 0 /\ conns[Conn].open /\ conns[Conn].ident \in UserDNs) =>
        \E q \in Procs : /\ Validating(q)
                         /\ procs[q].op.conn = Conn
                         /\ procs[q].userDN = conns[Conn].ident

\* C15: with two Authenticate calls running concurrently on one Client the
\* service-bound invariant is violated in a reachable state: the held
\* connection is bound as a user identity whenever, and only while, a call
\* stands between its successful validation bind and its restoring Bind, and
\* a search of the other call that reaches the server in that window is
\* served under that user identity (the state C15_Witness); no search is
\* served under a user identity otherwise.
C15_UserBoundWhileValidating ==
    [][/\ UserBoundOnlyWhileValidating'
       /\ \A p \in Procs :
             (procs[p].pc = "searchwait" /\ procs'[p].pc # "searchwait") =>
                /\ procs'[p].op.op = "search"
                /\ procs'[p].op.conn = procs[p].cn
                /\ procs'[p].op.ident = conns[procs[p].cn].ident
                /\ (procs'[p].op.ident \in UserDNs /\ conns[procs[p].cn].open) =>
                      \E q \in Procs \ {p} :
                          /\ Validating(q)
                          /\ procs[q].op.conn = procs[p].cn
                          /\ procs[q].userDN = procs'[p].op.ident]_vars

C15_Witness ==
    \E p \in Procs : \E q \in Procs \ {p} :
        /\ Validating(q)
        /\ Conn # 0 /\ conns[Conn].open
        /\ conns[Conn].ident = procs[q].userDN
        /\ procs[p].op.op = "search"
        /\ procs[p].op.ident = procs[q].userDN
        /\ procs[p].op.ident # Config.BindDN
        /\ procs[p].op.resp.err = NoError

\* the last call's Bind found the connection closed at its first bind and
\* its reconnect failed: connect was entered and no dial succeeded
ReconnectFailed(tr) ==
    /\ FirstBindClosed(tr)
    /\ Len(tr) >= 2 /\ tr[2].op = "close"
    /\ \A i \in DOMAIN tr : tr[i].op = "dial" => tr[i].resp.err # NoError

\* C21: when the reconnect inside Bind's retry path fails, Bind returns the
\* connection error (of the dial, or of the CA certificates) without issuing
\* another bind, and the client holds no connection: the old one was closed
\* before dialing and none was installed.
C21_FailedReconnect ==
    (call.op = "Bind" /\ ReconnectFailed(T)) =>
        /\ Count("bind", T) = 1
        /\ call.err = IF T[Len(T)].op = "dial" THEN T[Len(T)].resp.err
                      ELSE CACertError
        /\ call.err \notin {NoError, Panic, ClosedSignature}
        /\ Conn = 0
        /\ T[2].conn = call.pre.Conn /\ ~conns[call.pre.Conn].open
        /\ Len(T) <= 3
        /\ disconnects = call.pre.disconnects + 1

C21_Witness ==
    /\ call.op = "Bind" /\ ReconnectFailed(T)
    /\ call.err = DialError /\ Len(T) = 3
    /\ call.pre.Conn # 0 /\ Conn = 0 /\ ~conns[call.pre.Conn].open

\* C22: with the calls on a Client made one after another, every search
\* issued by Authenticate is sent on a connection bound as the service
\* identity, right after the call's own successful service bind on that
\* connection, whatever the earlier calls left behind, also an earlier
\* Authenticate whose restoring Bind failed.
C22_SearchAsService ==
    call.op = "Authenticate" =>
        \A i \in DOMAIN T :
            T[i].op = "search" =>
                /\ T[i].ident = Config.BindDN
                /\ T[i].ident # ""
                /\ i > 1
                /\ IsServiceBind(T[i - 1]) /\ T[i - 1].resp.err = NoError
                /\ T[i - 1].conn = T[i].conn

C22_Witness ==
    /\ call.op = "Authenticate"
    /\ call.pre.unrestored
    /\ Len(T) >= 2
    /\ T[1].conn = call.pre.Conn /\ T[1].ident # Config.BindDN
    /\ T[2].op = "search" /\ T[2].ident = Config.BindDN

\* the connections dialed successfully during the last call
Dialed == {T[i].conn : i \in {j \in DOMAIN T : T[j].op = "dial"
                                               /\ T[j].resp.err = NoError}}

\* C23: when New fails, no connection opened during that New call remains
\* open: a connection that was dialed before the initial service bind failed
\* has been closed by the time New returns the error and the empty Client.
C23_FailedNewLeavesNothingOpen ==
    (call.op = "New" /\ call.err # NoError) =>
        \A cn \in Dialed : ~conns[cn].open

====
